---- MODULE Spec2Model ----
(***************************************************************************)
(* A model of the TikTok downloader bot (main.py): the provider chain      *)
(* get_tiktok_content, the three response normalizers, and the message     *)
(* handler handle_tiktok_url with its calls to the Telegram gateway.       *)
(* Spec is one update handled from its arrival to the handler's return;    *)
(* SpecConc is two updates whose handlers take turns at their awaits.      *)
(*                                                                         *)
(* Python strings are sequences of one-character strings.  A JSON value is *)
(* a record [kind, str, list]: kind says what the value is (absent key,    *)
(* null, string, list, or another truthy value such as a number or an      *)
(* object), str holds the characters of a string and list the elements of  *)
(* a list, which are JSON values themselves.                               *)
(***************************************************************************)
EXTENDS Integers, Sequences, FiniteSets, TLC

VARIABLES text, pc, api, resp, lastFail, contacted, result, images, title,
          i, sent_count, exc, msg, calls, escaped, me, peer

vars == <<text, pc, api, resp, lastFail, contacted, result, images, title,
          i, sent_count, exc, msg, calls, escaped, me, peer>>

(***************************************************************************)
(* Bounds of the model.                                                    *)
(***************************************************************************)
\* longest image list a provider payload carries
MaxImages == 11
\* longest title a provider payload carries
MaxTitleLen == 101

(***************************************************************************)
(* Program constants.                                                      *)
(***************************************************************************)
\* images[:10], the Telegram album limit
AlbumLimit == 10
\* images[:5], the limit of the one-by-one fallback
FallbackLimit == 5
\* title[:100]
TitleLimit == 100
\* response.status_code == 200
HttpOk == 200

(***************************************************************************)
(* Strings.                                                                *)
(***************************************************************************)
Min(a, b) == IF a < b THEN a ELSE b

\* s[:n]
Prefix(s, n) == SubSeq(s, 1, Min(n, Len(s)))

\* sub in s
Contains(s, sub) ==
  \E k \in 1..(Len(s) - Len(sub) + 1) : SubSeq(s, k, k + Len(sub) - 1) = sub

\* the characters str.strip() removes
Whitespace == {" "}

RECURSIVE LStrip(_)
LStrip(s) == IF s # <<>> /\ Head(s) \in Whitespace THEN LStrip(Tail(s)) ELSE s

RECURSIVE RStrip(_)
RStrip(s) ==
  IF s # <<>> /\ s[Len(s)] \in Whitespace
  THEN RStrip(SubSeq(s, 1, Len(s) - 1)) ELSE s

\* s.strip()
Strip(s) == RStrip(LStrip(s))

\* position of the first '?' of s, 0 when there is none
RECURSIVE FirstQuery(_, _)
FirstQuery(s, k) ==
  IF k > Len(s) THEN 0 ELSE IF s[k] = "?" THEN k ELSE FirstQuery(s, k + 1)

\* image_url.split('?')[0] if '?' in image_url else image_url
CleanUrl(u) ==
  IF Contains(u, <<"?">>) THEN SubSeq(u, 1, FirstQuery(u, 1) - 1) ELSE u

(***************************************************************************)
(* JSON values.                                                            *)
(***************************************************************************)
Absent == [kind |-> "absent", str |-> <<>>, list |-> <<>>]
Null == [kind |-> "null", str |-> <<>>, list |-> <<>>]
StrV(s) == [kind |-> "str", str |-> s, list |-> <<>>]
ListV(l) == [kind |-> "list", str |-> <<>>, list |-> l]
\* a truthy value that is neither a string nor a list (a number, an object)
OtherV == [kind |-> "other", str |-> <<>>, list |-> <<>>]

\* Python truthiness: bool(v)
Truthy(v) ==
  CASE v.kind \in {"absent", "null"} -> FALSE
    [] v.kind = "str" -> Len(v.str) > 0
    [] v.kind = "list" -> Len(v.list) > 0
    [] OTHER -> TRUE

\* d.get(key, default): the default stands in for an absent key only
GetOr(v, default) == IF v.kind = "absent" THEN default ELSE v

\* d.get(key): None for an absent key
Get(v) == GetOr(v, Null)

\* a or b
Or(a, b) == IF Truthy(a) THEN a ELSE b

DefaultSlideshowTitle ==
  <<"T","i","k","T","o","k"," ","S","l","i","d","e","s","h","o","w">>
DefaultVideoTitle == <<"T","i","k","T","o","k"," ","V","i","d","e","o">>
UnknownAuthor == <<"U","n","k","n","o","w","n">>
AllApisFailed == "All APIs failed"

(***************************************************************************)
(* Results of the normalizers and of the chain.                            *)
(***************************************************************************)
Res(success, type, imgs, video_url, ttl, author, error) ==
  [success |-> success, type |-> type, images |-> imgs,
   video_url |-> video_url, title |-> ttl, author |-> author,
   error |-> error]

\* return None
NoneResult == Res(FALSE, "None", Absent, Absent, Absent, Absent, "")
\* the normalizer raised (AttributeError of a .get on a value that is no dict)
Raised == Res(FALSE, "raise", Absent, Absent, Absent, Absent, "")
\* no value yet
NoResult == Res(FALSE, "unset", Absent, Absent, Absent, Absent, "")

\* {"success": True, "type": "slideshow", "images": ..., "title": ..., "author": ...}
Slideshow(imgs, ttl, author) ==
  Res(TRUE, "slideshow", imgs, Absent, ttl, author, "")

\* {"success": True, "type": "video", "video_url": ..., "title": ...}
Video(video_url, ttl) == Res(TRUE, "video", Absent, video_url, ttl, Absent, "")

\* a mutation: the failure carries the text of the last exception
AllFailed_leaks ==
  Res(FALSE, "failure", Absent, Absent, Absent, Absent, "RequestException")

\* {"success": False, "error": "All APIs failed"}, returned when the loop is
\* exhausted (line 109)
AllFailed == Res(FALSE, "failure", Absent, Absent, Absent, Absent, AllApisFailed)

\* if result: (None is falsy, a non-empty dict is truthy)
IsResult(r) == r.type \in {"slideshow", "video", "failure"}

(***************************************************************************)
(* Provider payloads: the decoded JSON body.  One record shape serves the  *)
(* three providers; each normalizer reads its own keys:                    *)
(*   TikWM      code, data{images, hdplay, play, title, author{nickname}}  *)
(*   Tiklydown  type, imageUrls, videoUrl, desc                            *)
(*   TikMate    success, data{images, play, desc}                          *)
(* isDict: the body is a JSON object.  dataKind: what the "data" key holds *)
(* ("dict": a non-empty object whose keys are the fields below).           *)
(***************************************************************************)
Payload(isDict, code, succ, ptype, dataKind, imgs, hd, play, ttl, author) ==
  [isDict |-> isDict, code |-> code, succ |-> succ, ptype |-> ptype,
   dataKind |-> dataKind, images |-> imgs, hd |-> hd, play |-> play,
   title |-> ttl, author |-> author]

IntV(n) == [kind |-> "int", n |-> n]
NoInt == [kind |-> "absent", n |-> 0]

\* the "author" key: kind absent | null | nondict | dict, and its "nickname"
Author(kind, nick) == [kind |-> kind, nick |-> nick]

\* content.get("author", {}).get("nickname", "Unknown")
AuthorNickname(author) ==
  IF author.kind = "absent" THEN StrV(UnknownAuthor)
  ELSE GetOr(author.nick, StrV(UnknownAuthor))

\* what data.get("data") is truthy for
DataTruthy(dataKind) == dataKind \in {"dict", "nondict"}

\* a mutation: list(images), which splits a string into its characters
AsList_chars(v) ==
  IF v.kind = "str" THEN ListV([k \in 1..Len(v.str) |-> StrV(<<v.str[k]>>)]) ELSE v

\* if isinstance(images, str): images = [images]
AsList(v) == IF v.kind = "str" THEN ListV(<<v>>) ELSE v

parse_tikwm_response(data) ==
  IF data.isDict /\ data.code.kind = "int" /\ data.code.n = 0
     /\ DataTruthy(data.dataKind)
  THEN IF data.dataKind # "dict" THEN Raised
       ELSE LET imgs == Get(data.images)
                video_url == Or(Get(data.hd), Get(data.play))
            IN IF Truthy(imgs)
               THEN IF imgs.kind \notin {"str", "list"} THEN NoneResult
                    ELSE IF data.author.kind \in {"null", "nondict"} THEN Raised
                    ELSE Slideshow(
                           AsList(imgs),
                           GetOr(data.title, StrV(DefaultSlideshowTitle)),
                           AuthorNickname(data.author))
               ELSE IF Truthy(video_url)
                    THEN Video(video_url, GetOr(data.title, StrV(DefaultVideoTitle)))
                    ELSE NoneResult
  ELSE NoneResult

TiklydownVideo(data) ==
  LET video_url == Get(data.play)
  IN IF Truthy(video_url)
     THEN Video(video_url, GetOr(data.title, StrV(DefaultVideoTitle)))
     ELSE NoneResult

parse_tiklydown_response(data) ==
  IF ~data.isDict THEN NoneResult
  ELSE IF data.ptype = "image"
       THEN LET got == GetOr(data.images, ListV(<<>>))
                imgs == AsList(got)
            IN IF Truthy(imgs)
               THEN Slideshow(imgs, GetOr(data.title, StrV(DefaultSlideshowTitle)),
                              Absent)
               ELSE TiklydownVideo(data)
       ELSE TiklydownVideo(data)

parse_tikmate_response(data) ==
  IF ~data.isDict THEN NoneResult
  ELSE IF data.succ
       THEN IF data.dataKind \in {"null", "falsyother", "nondict"} THEN Raised
            ELSE LET content == IF data.dataKind = "dict" THEN data
                                ELSE [data EXCEPT !.images = Absent, !.play = Absent,
                                                  !.title = Absent]
                     got == GetOr(content.images, ListV(<<>>))
                     video_url == Get(content.play)
                 IN IF Truthy(got)
                    THEN Slideshow(
                           AsList(got),
                           GetOr(content.title, StrV(DefaultSlideshowTitle)),
                           Absent)
                    ELSE IF Truthy(video_url)
                         THEN Video(video_url,
                                    GetOr(content.title, StrV(DefaultVideoTitle)))
                         ELSE NoneResult
       ELSE NoneResult

\* api["parse_func"](data) of the entry of api_endpoints with this name
ParseFunc(name, data) ==
  CASE name = "TikWM Slideshow" -> parse_tikwm_response(data)
    [] name = "TikTok Download API" -> parse_tiklydown_response(data)
    [] OTHER -> parse_tikmate_response(data)

(***************************************************************************)
(* Captions and status texts.                                              *)
(***************************************************************************)
Digit == <<"0", "1", "2", "3", "4", "5", "6", "7", "8", "9">>

\* str(n) of an f-string, n >= 0
RECURSIVE Itoa(_)
Itoa(n) == IF n < 10 THEN <<Digit[n + 1]>> ELSE Itoa(n \div 10) \o <<Digit[(n % 10) + 1]>>

\* the emoji of the captions, one string per code point
Frame == <<"U+1F5BC", "U+FE0F">>
Bust == <<"U+1F464">>
Camera == <<"U+1F4F8">>
Inbox == <<"U+1F4E5">>
Clapper == <<"U+1F3AC">>

DownloadedVia ==
  <<"D","o","w","n","l","o","a","d","e","d"," ","v","i","a"," ",
    "T","i","k","T","o","k"," ","B","o","t">>
TikTokBot == <<"T","i","k","T","o","k"," ","B","o","t">>

\* caption[:1024] of the first album item
CaptionLimit == 1024

\* the caption of the first album item (lines 325-333)
AlbumCaption(ttl, author, n) ==
  Prefix(Frame \o <<" ">> \o ttl \o <<"\n">>
         \o (IF Truthy(author)
             THEN Bust \o <<" ", "B", "y", ":", " ">> \o author.str \o <<"\n">>
             ELSE <<>>)
         \o Camera \o <<" ">> \o Itoa(n) \o <<" ", "p", "h", "o", "t", "o", "s", "\n">>
         \o <<"\n">> \o Inbox \o <<" ">> \o DownloadedVia,
         CaptionLimit)

\* the caption of the k-th single photo, k counted from 0 (lines 351-360)
PhotoCaption(k, ttl, n) ==
  IF k = 0
  THEN Frame \o <<" ">> \o ttl \o <<" ", "(", "1", "/">> \o Itoa(Min(n, 5))
       \o <<")", "\n">> \o Inbox \o <<" ">> \o TikTokBot
  ELSE Frame \o <<" ", "(">> \o Itoa(k + 1) \o <<"/">> \o Itoa(Min(n, 5)) \o <<")">>

\* the caption of the video (line 384)
VideoCaption(ttl) ==
  Clapper \o <<" ">> \o ttl \o <<"\n">> \o Inbox \o <<" ">> \o DownloadedVia

\* a text of the bot: its template and what the template is filled with
Txt(tpl, err, n, ttl, url) ==
  [tpl |-> tpl, err |-> err, n |-> n, title |-> ttl, url |-> url]

NoText == Txt("", "", 0, <<>>, <<>>)
InvalidUrlText == Txt("Please send a valid TikTok URL", "", 0, <<>>, <<>>)
ProcessingText == Txt("Processing your request", "", 0, <<>>, <<>>)
DownloadFailedText(err) == Txt("Download Failed", err, 0, <<>>, <<>>)
NoImagesText == Txt("No images found in slideshow", "", 0, <<>>, <<>>)
SlideshowDetectedText(n, ttl) == Txt("Slideshow Detected", "", n, ttl, <<>>)
SendingIndividuallyText(n) == Txt("Sending images individually", "", n, <<>>, <<>>)
SentText(n) == Txt("Sent images", "", n, <<>>, <<>>)
CouldNotSendText == Txt("Could not send any images", "", 0, <<>>, <<>>)
VideoDetectedText(ttl) == Txt("Video Detected", "", 0, ttl, <<>>)
VideoLinkText(ttl, url) == Txt("Could not send via Telegram", "", 0, ttl, url)
\* str(e)[:100]: an exception's text is its name here, far below 100 characters
UnexpectedErrorText(e) == Txt("Unexpected Error", e, 0, <<>>, <<>>)

\* the exceptions a handler meets
GatewayError == "TelegramError"
TypeError == "TypeError"
RequestError == "RequestException"
NoExc == ""
ExceptionTexts == {GatewayError, TypeError, RequestError}

(***************************************************************************)
(* Calls to the Telegram gateway, in the order the handler made them.      *)
(***************************************************************************)
NoCaption == [has |-> FALSE, text |-> <<>>]
Caption(c) == [has |-> TRUE, text |-> c]

\* InputMediaPhoto(media=..., caption=...); photo=..., video=...
Item(media, caption) == [media |-> media, caption |-> caption]

Call(op, txt, media, ok) == [op |-> op, text |-> txt, media |-> media, ok |-> ok]

(***************************************************************************)
(* Inputs: the texts users send, and what the providers answer.            *)
(***************************************************************************)
TikTokCom == <<"t","i","k","t","o","k",".","c","o","m">>
DouyinCom == <<"d","o","u","y","i","n",".","c","o","m">>

ValidTexts ==
  { <<"h","t","t","p","s",":","/","/","v","m",".">> \o TikTokCom \o <<"/","a","b","c">>,
    <<" ">> \o DouyinCom \o <<"/","x"," ">> }

InvalidTexts ==
  { <<>>,
    <<"h","e","l","l","o">>,
    <<"t","i","k","t","o","k",".","c","o">>,
    <<"T","i","k","T","o","k",".","c","o","m">>,
    <<"t","i","k","t","o","k"," ",".","c","o","m">>,
    <<"d","o","u","y","i","n","c","o","m">> }

Texts == ValidTexts \cup InvalidTexts

\* any(domain in url for domain in ["tiktok.com", "douyin.com"])
IsTikTokUrl(url) == Contains(url, TikTokCom) \/ Contains(url, DouyinCom)

ImageName == <<"1","2","3","4","5","6","7","8","9","a","b","c","d","e","f","g">>

\* the k-th image URL of a payload; pat says which URLs carry a query string
ImageUrl(k, pat) ==
  LET base == <<"u", ImageName[k]>>
  IN CASE pat = "plain" -> StrV(base)
       [] pat = "mixed" /\ k % 3 = 1 -> StrV(base \o <<"?", "t">>)
       [] pat = "mixed" /\ k % 3 = 2 -> StrV(base \o <<"?", "a", "?", "b">>)
       [] pat = "mixed" /\ k % 3 = 0 -> StrV(base)
       [] pat = "null" /\ k = 2 -> Null
       [] OTHER -> StrV(base \o <<"?", "t">>)

ImageList(n, pat) == [k \in 1..n |-> ImageUrl(k, pat)]

ImageLists ==
  { ImageList(n, pat) : n \in 1..MaxImages, pat \in {"plain", "mixed"} }
  \cup { ImageList(n, "null") : n \in 2..3 }

\* what an image key may hold
ImageValues ==
  { Absent, Null, StrV(<<>>), ListV(<<>>), OtherV,
    StrV(<<"u", "0", "?", "s">>) }
  \cup { ListV(l) : l \in ImageLists }

FewImageValues == { Absent, ListV(ImageList(2, "mixed")) }

VideoValues == { Absent, StrV(<<"v", "h", "d">>) }
PlayValues == { Absent, Null, StrV(<<"v", "s", "d">>) }

TitleOf(n) == [k \in 1..n |-> IF k = n THEN "z" ELSE "x"]

TitleValues ==
  { Absent, Null }
  \cup { StrV(TitleOf(n)) : n \in {0, 2, TitleLimit - 1, TitleLimit, MaxTitleLen} }

FewTitleValues == { StrV(TitleOf(2)) }

AuthorValues ==
  { Author("absent", Absent), Author("null", Absent), Author("nondict", Absent),
    Author("dict", Absent), Author("dict", Null), Author("dict", StrV(<<>>)),
    Author("dict", StrV(<<"A", "n", "n">>)) }

FewAuthorValues == { Author("dict", StrV(<<"A", "n", "n">>)) }

NoAuthor == Author("absent", Absent)

\* a body that is no JSON object (a list, a string, a number)
NotADict ==
  Payload(FALSE, NoInt, FALSE, "", "absent", Absent, Absent, Absent, Absent, NoAuthor)

\* the bodies TikWM may answer with
TikWMPayloads ==
  { NotADict }
  \cup { Payload(TRUE, c, FALSE, "", "dict", ListV(ImageList(2, "plain")), Absent,
                 Absent, StrV(TitleOf(2)), NoAuthor) : c \in {IntV(1), NoInt} }
  \cup { Payload(TRUE, IntV(0), FALSE, "", d, Absent, Absent, Absent, Absent,
                 NoAuthor) : d \in {"absent", "null", "emptydict", "falsyother", "nondict"} }
  \cup { Payload(TRUE, IntV(0), FALSE, "", "dict", im, hd, pl, t, a) :
           im \in ImageValues, hd \in VideoValues, pl \in PlayValues,
           t \in FewTitleValues, a \in FewAuthorValues }
  \cup { Payload(TRUE, IntV(0), FALSE, "", "dict", im, Absent, pl, t, a) :
           im \in FewImageValues, pl \in PlayValues,
           t \in TitleValues, a \in AuthorValues }

\* the bodies Tiklydown may answer with
TiklydownPayloads ==
  { NotADict }
  \cup { Payload(TRUE, NoInt, FALSE, ty, "absent", im, Absent, pl, t, NoAuthor) :
           ty \in {"image", "video", ""}, im \in ImageValues, pl \in PlayValues,
           t \in FewTitleValues }
  \cup { Payload(TRUE, NoInt, FALSE, ty, "absent", im, Absent, pl, t, NoAuthor) :
           ty \in {"image", "video"}, im \in FewImageValues, pl \in PlayValues,
           t \in TitleValues }

\* the bodies TikMate may answer with
TikMatePayloads ==
  { NotADict }
  \cup { Payload(TRUE, NoInt, FALSE, "", "dict", ListV(ImageList(2, "plain")), Absent,
                 Absent, StrV(TitleOf(2)), NoAuthor) }
  \cup { Payload(TRUE, NoInt, TRUE, "", d, Absent, Absent, Absent, Absent,
                 NoAuthor) : d \in {"absent", "null", "emptydict", "falsyother", "nondict"} }
  \cup { Payload(TRUE, NoInt, TRUE, "", "dict", im, Absent, pl, t, NoAuthor) :
           im \in ImageValues, pl \in PlayValues, t \in FewTitleValues }
  \cup { Payload(TRUE, NoInt, TRUE, "", "dict", im, Absent, pl, t, NoAuthor) :
           im \in FewImageValues, pl \in PlayValues, t \in TitleValues }

\* what requests.get and response.json() give: an exception of requests.get,
\* a status and, for a body that decodes, the payload
Response(kind, status, json, data) ==
  [kind |-> kind, status |-> status, json |-> json, data |-> data]

NoResp == Response("none", 0, FALSE, NotADict)

\* a mutation: the backup provider listed first
api_endpoints_reordered == <<"TikMate", "TikWM Slideshow", "TikTok Download API">>

\* the declared providers, in order (lines 62-81)
api_endpoints == <<"TikWM Slideshow", "TikTok Download API", "TikMate">>

PayloadsOf(name) ==
  CASE name = "TikWM Slideshow" -> TikWMPayloads
    [] name = "TikTok Download API" -> TiklydownPayloads
    [] OTHER -> TikMatePayloads

Responses(name) ==
  { Response("exception", 0, FALSE, NotADict) }
  \cup { Response("http", st, FALSE, NotADict) : st \in {HttpOk, 404, 500} }
  \cup { Response("http", HttpOk, TRUE, d) : d \in PayloadsOf(name) }

\* the texts and the answers of the providers while two updates are handled
\* at once: a few of Texts and of Responses
FewTexts ==
  { <<"h","t","t","p","s",":","/","/","v","m",".">> \o TikTokCom \o <<"/","a","b","c">>,
    <<"h","e","l","l","o">> }

FewResponses(name) ==
  { Response("exception", 0, FALSE, NotADict) }
  \cup CASE name = "TikWM Slideshow" ->
            { Response("http", HttpOk, TRUE,
                Payload(TRUE, IntV(0), FALSE, "", "dict", ListV(ImageList(2, "mixed")),
                        Absent, Absent, StrV(TitleOf(2)),
                        Author("dict", StrV(<<"A", "n", "n">>)))) }
         [] name = "TikTok Download API" ->
            { Response("http", HttpOk, TRUE,
                Payload(TRUE, NoInt, FALSE, "video", "absent", Absent, Absent,
                        StrV(<<"v", "s", "d">>), StrV(TitleOf(2)), NoAuthor)) }
         [] OTHER -> {}

\* what a provider may answer to the handler that runs
Repertoire(name) ==
  IF peer.pc = "none" THEN Responses(name) ELSE FewResponses(name)

(***************************************************************************)
(* get_tiktok_content: one provider after the other (lines 90-109).        *)
(***************************************************************************)
\* how one pass of the loop body ends for the response r of provider name:
\* "exception" (requests.get raised), "status" (not 200), "notjson"
\* (response.json() raised), "raise" (the normalizer raised), "none" (the
\* normalizer returned None), or "ok" (return result)
AttemptKind(name, r) ==
  CASE r.kind = "exception" -> "exception"
    [] r.status # HttpOk -> "status"
    [] ~r.json -> "notjson"
    [] ParseFunc(name, r.data) = Raised -> "raise"
    [] ~IsResult(ParseFunc(name, r.data)) -> "none"
    [] OTHER -> "ok"

\* a mutation: the inner except re-raises, a normalizer that raises ends the chain
AfterFailure_raise_aborts(kind, k) ==
  IF k < Len(api_endpoints) /\ kind # "raise" THEN "request" ELSE "dispatch"

\* where the loop goes after a pass that returned nothing: every kind of
\* failure ends in continue or falls to the end of the loop body
AfterFailure(kind, k) ==
  IF k < Len(api_endpoints) THEN "request" ELSE "dispatch"

\* the locals of the handler that is running, as one record: text to escaped
\* are the locals of handle_tiktok_url and of the get_tiktok_content it
\* calls, and the calls the gateway got for its update
Running ==
  [text |-> text, pc |-> pc, api |-> api, resp |-> resp, lastFail |-> lastFail,
   contacted |-> contacted, result |-> result, images |-> images,
   title |-> title, i |-> i, sent_count |-> sent_count, exc |-> exc,
   msg |-> msg, calls |-> calls, escaped |-> escaped]

\* no second update is being handled
NoPeer ==
  [text |-> <<>>, pc |-> "none", api |-> 1, resp |-> NoResp, lastFail |-> "",
   contacted |-> <<>>, result |-> NoResult, images |-> <<>>, title |-> <<>>,
   i |-> 0, sent_count |-> 0, exc |-> NoExc,
   msg |-> [state |-> "none", text |-> NoText], calls |-> <<>>,
   escaped |-> FALSE]

\* the state of a handler that has not begun: the frame of a fresh call
Start ==
  /\ pc = "start"
  /\ api = 1
  /\ resp = NoResp
  /\ lastFail = ""
  /\ contacted = <<>>
  /\ result = NoResult
  /\ images = <<>>
  /\ title = <<>>
  /\ i = 0
  /\ sent_count = 0
  /\ exc = NoExc
  /\ msg = [state |-> "none", text |-> NoText]
  /\ calls = <<>>
  /\ escaped = FALSE

\* one update is handled, with me = 1 the handler that runs
Init ==
  /\ text \in Texts
  /\ Start
  /\ me = 1
  /\ peer = NoPeer

\* url = update.message.text.strip()
Url == Strip(text)

\* a gateway call made and answered: ok, or rejected with an exception
Gateway(op, txt, media, ok) == calls' = Append(calls, Call(op, txt, media, ok))

\* await msg.edit_text(txt)
EditText(txt, ok) ==
  /\ Gateway("edit_text", txt, <<>>, ok)
  /\ msg' = IF ok THEN [msg EXCEPT !.text = txt] ELSE msg

\* lines 261-265: not a TikTok URL
RejectUrl ==
  /\ pc = "start"
  /\ ~IsTikTokUrl(Url)
  /\ \E ok \in BOOLEAN :
       /\ Gateway("reply_text", InvalidUrlText, <<>>, ok)
       /\ escaped' = ~ok
  /\ pc' = "done"
  /\ UNCHANGED <<me, peer, text, api, resp, lastFail, contacted, result, images, title,
                 i, sent_count, exc, msg>>

\* lines 268-271: the status message
SendStatus ==
  /\ pc = "start"
  /\ IsTikTokUrl(Url)
  /\ \E ok \in BOOLEAN :
       /\ Gateway("reply_text", ProcessingText, <<>>, ok)
       /\ msg' = IF ok THEN [state |-> "live", text |-> ProcessingText] ELSE msg
       /\ pc' = IF ok THEN "request" ELSE "done"
       /\ escaped' = ~ok
  /\ UNCHANGED <<me, peer, text, api, resp, lastFail, contacted, result, images, title,
                 i, sent_count, exc>>

\* line 93: requests.get of the provider at position api
Request ==
  /\ pc = "request"
  /\ api <= Len(api_endpoints)
  /\ \E r \in Repertoire(api_endpoints[api]) : resp' = r
  /\ contacted' = Append(contacted, api_endpoints[api])
  /\ pc' = "parse"
  /\ UNCHANGED <<me, peer, text, api, lastFail, result, images, title, i, sent_count,
                 exc, msg, calls, escaped>>

\* lines 95-107: the rest of the loop body, and line 109 after the last pass
Parse ==
  /\ pc = "parse"
  /\ LET name == api_endpoints[api]
         kind == AttemptKind(name, resp)
     IN IF kind = "ok"
        THEN /\ result' = ParseFunc(name, resp.data)
             /\ pc' = "dispatch"
             /\ lastFail' = ""
             /\ api' = api
        ELSE /\ pc' = AfterFailure(kind, api)
             /\ api' = api + 1
             /\ result' = IF pc' = "dispatch" THEN AllFailed ELSE result
             /\ lastFail' = IF pc' = "dispatch" THEN "" ELSE kind
  /\ resp' = NoResp
  /\ UNCHANGED <<me, peer, text, contacted, images, title, i, sent_count, exc, msg,
                 calls, escaped>>

(***************************************************************************)
(* handle_tiktok_url after the chain (lines 277-409).  Each action is the  *)
(* code up to and including one awaited gateway call.                      *)
(***************************************************************************)
\* the outer except (line 400) takes over with exception e
RaiseTo(e) == pc' = "except" /\ exc' = e

\* result.get("title", default)[:100]: slicing None raises TypeError
TitleRaises(r) == r.title.kind # "str"

\* a mutation: the slice stops one character early
TruncTitle_short(t) == Prefix(t, TitleLimit - 1)

\* result.get("title", ...)[:100] (lines 291 and 373)
TruncTitle(t) == Prefix(t, TitleLimit)

\* lines 277-286: the chain failed
DispatchFailure ==
  /\ pc = "dispatch"
  /\ ~result.success
  /\ \E ok \in BOOLEAN :
       /\ EditText(DownloadFailedText(result.error), ok)
       /\ IF ok THEN pc' = "done" /\ exc' = exc ELSE RaiseTo(GatewayError)
  /\ UNCHANGED <<me, peer, text, api, resp, lastFail, contacted, result, images, title,
                 i, sent_count, escaped>>

\* a mutation: the cap is left out
CapImages_none(imgs) == imgs

\* images = images[:10] (line 304)
CapImages(imgs) == Prefix(imgs, AlbumLimit)

\* lines 289-312: a slideshow, up to the "Slideshow Detected" edit.
\* len(images) and images[:10] raise TypeError for images that are no list
DispatchSlideshow ==
  /\ pc = "dispatch"
  /\ result.success
  /\ result.type = "slideshow"
  /\ IF TitleRaises(result) \/ result.images.kind # "list"
     THEN /\ RaiseTo(TypeError)
          /\ UNCHANGED <<images, title, msg, calls>>
     ELSE /\ title' = TruncTitle(result.title.str)
          /\ IF ~Truthy(result.images)
             THEN /\ images' = result.images.list
                  /\ \E ok \in BOOLEAN :
                       /\ EditText(NoImagesText, ok)
                       /\ IF ok THEN pc' = "done" /\ exc' = exc
                          ELSE RaiseTo(GatewayError)
             ELSE /\ images' = CapImages(result.images.list)
                  /\ \E ok \in BOOLEAN :
                       /\ EditText(SlideshowDetectedText(Len(images'), title'), ok)
                       /\ IF ok THEN pc' = "album" /\ exc' = exc
                          ELSE RaiseTo(GatewayError)
  /\ UNCHANGED <<me, peer, text, api, resp, lastFail, contacted, result, i, sent_count,
                 escaped>>

\* lines 318-335: media_group; '?' in image_url raises TypeError for an
\* image_url that is no string
BuildRaises(imgs) == \E k \in 1..Len(imgs) : imgs[k].kind # "str"

media_group(imgs, ttl, author) ==
  [k \in 1..Len(imgs) |->
     Item(StrV(CleanUrl(imgs[k].str)),
          IF k = 1 THEN Caption(AlbumCaption(ttl, author, Len(imgs)))
          ELSE NoCaption)]

\* lines 314-338: build the album and send it
SendAlbum ==
  /\ pc = "album"
  /\ IF BuildRaises(images)
     THEN pc' = "fallback" /\ UNCHANGED calls
     ELSE \E ok \in BOOLEAN :
            /\ Gateway("reply_media_group", NoText,
                       media_group(images, title, Get(result.author)), ok)
            /\ pc' = IF ok THEN "album_delete" ELSE "fallback"
  /\ UNCHANGED <<me, peer, text, api, resp, lastFail, contacted, result, images, title,
                 i, sent_count, exc, msg, escaped>>

\* await msg.delete()
Delete(ok) ==
  /\ Gateway("delete", NoText, <<>>, ok)
  /\ msg' = IF ok THEN [msg EXCEPT !.state = "deleted"] ELSE msg

\* line 339: delete the status message after the album; a rejection lands
\* in the except of line 341
DeleteAfterAlbum ==
  /\ pc = "album_delete"
  /\ \E ok \in BOOLEAN :
       /\ Delete(ok)
       /\ pc' = IF ok THEN "done" ELSE "fallback"
  /\ UNCHANGED <<me, peer, text, api, resp, lastFail, contacted, result, images, title,
                 i, sent_count, exc, escaped>>

\* lines 341-348: the except of the album; its edit is not guarded
StartFallback ==
  /\ pc = "fallback"
  /\ \E ok \in BOOLEAN :
       /\ EditText(SendingIndividuallyText(Len(images)), ok)
       /\ IF ok THEN pc' = "photos" /\ exc' = exc ELSE RaiseTo(GatewayError)
  /\ i' = 0
  /\ sent_count' = 0
  /\ UNCHANGED <<me, peer, text, api, resp, lastFail, contacted, result, images, title,
                 escaped>>

\* images[:5]
FallbackImages == Prefix(images, FallbackLimit)

\* lines 349-363: one pass of the loop; the gateway rejects a photo that is
\* no string, and a rejection is swallowed by the bare except
SendPhoto ==
  /\ pc = "photos"
  /\ i < Len(FallbackImages)
  /\ LET image_url == FallbackImages[i + 1]
     IN \E ok \in IF image_url.kind = "str" THEN BOOLEAN ELSE {FALSE} :
          /\ Gateway("reply_photo", NoText,
                     <<Item(image_url, Caption(PhotoCaption(i, title, Len(images))))>>,
                     ok)
          /\ sent_count' = IF ok THEN sent_count + 1 ELSE sent_count
  /\ i' = i + 1
  /\ UNCHANGED <<me, peer, text, pc, api, resp, lastFail, contacted, result, images,
                 title, exc, msg, escaped>>

\* a mutation: sent_count >= 0 where the code has sent_count > 0
ClosingText_ge(sent) ==
  IF sent >= 0 THEN SentText(sent) ELSE CouldNotSendText

\* the text of the closing edit (lines 365-368)
ClosingText(sent) ==
  IF sent > 0 THEN SentText(sent) ELSE CouldNotSendText

\* lines 365-368: the closing edit of the fallback
FinishFallback ==
  /\ pc = "photos"
  /\ i = Len(FallbackImages)
  /\ \E ok \in BOOLEAN :
       /\ EditText(ClosingText(sent_count), ok)
       /\ IF ok THEN pc' = "done" /\ exc' = exc ELSE RaiseTo(GatewayError)
  /\ UNCHANGED <<me, peer, text, api, resp, lastFail, contacted, result, images, title,
                 i, sent_count, escaped>>

\* lines 371-379: a video, up to the "Video Detected" edit
DispatchVideo ==
  /\ pc = "dispatch"
  /\ result.success
  /\ result.type = "video"
  /\ IF TitleRaises(result)
     THEN /\ RaiseTo(TypeError)
          /\ UNCHANGED <<title, msg, calls>>
     ELSE /\ title' = TruncTitle(result.title.str)
          /\ \E ok \in BOOLEAN :
               /\ EditText(VideoDetectedText(title'), ok)
               /\ IF ok THEN pc' = "video" /\ exc' = exc ELSE RaiseTo(GatewayError)
  /\ UNCHANGED <<me, peer, text, api, resp, lastFail, contacted, result, images, i,
                 sent_count, escaped>>

\* lines 381-387: send the video
SendVideo ==
  /\ pc = "video"
  /\ \E ok \in BOOLEAN :
       /\ Gateway("reply_video", NoText,
                  <<Item(result.video_url, Caption(VideoCaption(title)))>>, ok)
       /\ pc' = IF ok THEN "video_delete" ELSE "video_link"
  /\ UNCHANGED <<me, peer, text, api, resp, lastFail, contacted, result, images, title,
                 i, sent_count, exc, msg, escaped>>

\* line 388: delete the status message after the video; a rejection lands
\* in the except of line 390
DeleteAfterVideo ==
  /\ pc = "video_delete"
  /\ \E ok \in BOOLEAN :
       /\ Delete(ok)
       /\ pc' = IF ok THEN "done" ELSE "video_link"
  /\ UNCHANGED <<me, peer, text, api, resp, lastFail, contacted, result, images, title,
                 i, sent_count, exc, escaped>>

\* lines 390-398: the except of the video
VideoLink ==
  /\ pc = "video_link"
  /\ \E ok \in BOOLEAN :
       /\ EditText(VideoLinkText(title, Prefix(result.video_url.str, 50)), ok)
       /\ IF ok THEN pc' = "done" /\ exc' = exc ELSE RaiseTo(GatewayError)
  /\ UNCHANGED <<me, peer, text, api, resp, lastFail, contacted, result, images, title,
                 i, sent_count, escaped>>

\* lines 400-409: the outer except; its edit is not guarded either
Unexpected ==
  /\ pc = "except"
  /\ \E ok \in BOOLEAN :
       /\ EditText(UnexpectedErrorText(exc), ok)
       /\ escaped' = ~ok
  /\ pc' = "done"
  /\ UNCHANGED <<me, peer, text, api, resp, lastFail, contacted, result, images, title,
                 i, sent_count, exc>>

(***************************************************************************)
(* Two updates handled at once: the event loop runs one coroutine at a     *)
(* time and may resume the other one wherever the running one awaits.      *)
(***************************************************************************)
\* a mutation: msg is a module-level variable, so an await does not keep it
Locals_msg_global ==
  {"text", "pc", "api", "resp", "lastFail", "contacted", "result", "images",
   "title", "i", "sent_count", "exc", "calls", "escaped"}

\* what is local to one call of handle_tiktok_url: every name it and
\* get_tiktok_content assign is a local of theirs, and the module has no
\* mutable global
Locals ==
  {"text", "pc", "api", "resp", "lastFail", "contacted", "result", "images",
   "title", "i", "sent_count", "exc", "msg", "calls", "escaped"}

\* what a resumed coroutine finds under a name: its own saved value for a
\* local, the value the other one left for anything else
Resume(name, left, saved) == IF name \in Locals THEN saved ELSE left

\* the running handler is at an await (or has not begun, or has returned):
\* get_tiktok_content is synchronous, and so are the raise of a TypeError
\* and of the building of the album items
AtAwait ==
  /\ pc \notin {"parse", "dispatch"}
  /\ pc = "request" => contacted = <<>>
  /\ pc = "fallback" => ~BuildRaises(images)
  /\ pc = "except" => exc = GatewayError

\* the event loop suspends the running handler and resumes the other one
Switch ==
  /\ peer.pc \notin {"none", "done"}
  /\ AtAwait
  /\ me' = 3 - me
  /\ peer' = Running
  /\ text' = Resume("text", text, peer.text)
  /\ pc' = Resume("pc", pc, peer.pc)
  /\ api' = Resume("api", api, peer.api)
  /\ resp' = Resume("resp", resp, peer.resp)
  /\ lastFail' = Resume("lastFail", lastFail, peer.lastFail)
  /\ contacted' = Resume("contacted", contacted, peer.contacted)
  /\ result' = Resume("result", result, peer.result)
  /\ images' = Resume("images", images, peer.images)
  /\ title' = Resume("title", title, peer.title)
  /\ i' = Resume("i", i, peer.i)
  /\ sent_count' = Resume("sent_count", sent_count, peer.sent_count)
  /\ exc' = Resume("exc", exc, peer.exc)
  /\ msg' = Resume("msg", msg, peer.msg)
  /\ calls' = Resume("calls", calls, peer.calls)
  /\ escaped' = Resume("escaped", escaped, peer.escaped)

Next ==
  \/ RejectUrl
  \/ SendStatus
  \/ Request
  \/ Parse
  \/ DispatchFailure
  \/ DispatchSlideshow
  \/ SendAlbum
  \/ DeleteAfterAlbum
  \/ StartFallback
  \/ SendPhoto
  \/ FinishFallback
  \/ DispatchVideo
  \/ SendVideo
  \/ DeleteAfterVideo
  \/ VideoLink
  \/ Unexpected

Spec == Init /\ [][Next]_vars

\* two updates arrive: handler 1 is picked to run, handler 2 waits to begin
InitConc ==
  /\ text \in FewTexts
  /\ Start
  /\ me = 1
  /\ \E t \in FewTexts : peer = [Running EXCEPT !.text = t]

NextConc == Next \/ Switch

SpecConc == InitConc /\ [][NextConc]_vars

(***************************************************************************)
(* The claims.                                                             *)
(***************************************************************************)
\* the order the specification declares: TikWM, Tiklydown, TikMate
DeclaredOrder == <<"TikWM Slideshow", "TikTok Download API", "TikMate">>

\* the provider contacted last
LastContacted == contacted[Len(contacted)]

\* resp is a 200 answer whose body decoded
Decoded == resp.kind = "http" /\ resp.status = 200 /\ resp.json

\* C1: the providers are contacted in the declared order, one at a time and
\* each at most once; a provider is contacted only when no request is in
\* flight, no result exists and every earlier attempt ended in a failure; the
\* first usable result of a normalizer is returned as the success, and once
\* there is a result no provider is contacted any more.
C1_ChainInOrder ==
  [][ /\ (contacted' # contacted =>
            /\ pc = "request" /\ resp = NoResp /\ result = NoResult
            /\ Len(contacted) < Len(DeclaredOrder)
            /\ contacted' = Append(contacted, DeclaredOrder[Len(contacted) + 1])
            /\ (contacted # <<>> => lastFail # "")
            /\ pc' = "parse")
      /\ (pc = "parse" /\ Decoded /\ IsResult(ParseFunc(LastContacted, resp.data)) =>
            /\ result' = ParseFunc(LastContacted, resp.data)
            /\ result'.success
            /\ pc' = "dispatch")
      /\ (result' # result /\ result'.success =>
            /\ pc = "parse" /\ Decoded
            /\ result' = ParseFunc(LastContacted, resp.data))
      /\ (result # NoResult => contacted' = contacted)
    ]_vars

\* C1 witness: the third provider gave the result after the first two failed
C1_Witness ==
  pc = "dispatch" /\ result.success /\ contacted = DeclaredOrder

\* the part of the state a later pass of the loop and the handler can read
\* (all but the response and the note of how the last pass failed)
ChainState == <<text, contacted, result, images, title, i, sent_count, exc,
                msg, calls, escaped>>

\* C2: whatever way the attempt at a provider that is not the last one fails
\* (status, exception, body that is no JSON, normalizer raising or returning
\* None), the chain goes on to the next provider and nothing else changes:
\* what follows does not depend on the kind of failure.
C2_FailureContinues ==
  [][ /\ (pc = "parse" /\ AttemptKind(api_endpoints[api], resp) # "ok"
          /\ api < Len(api_endpoints) =>
            /\ pc' = "request" /\ api' = api + 1 /\ resp' = NoResp
            /\ ChainState' = ChainState)
      /\ (pc = "request" =>
            /\ pc' = "parse"
            /\ contacted' = Append(contacted, api_endpoints[api]))
    ]_vars

\* C2 witness: the normalizer of the first provider raised and the second
\* provider has been contacted
C2_Witness ==
  pc = "parse" /\ lastFail = "raise" /\ Len(contacted) = 2

\* the gateway calls that deliver media
IsMedia(c) == c.op \in {"reply_media_group", "reply_photo", "reply_video"}
MediaCalls == { k \in 1..Len(calls) : IsMedia(calls[k]) }

\* the chain has returned after the last provider, without a usable result
AllProvidersFailed ==
  /\ pc \notin {"start", "request", "parse"}
  /\ Len(contacted) = Len(DeclaredOrder)
  /\ ~result.success

\* C3 as claimed: when all providers failed, the handler ends having sent no
\* media and with the status message showing the 'Download Failed' text,
\* which carries no exception text.
C3_AsClaimed ==
  AllProvidersFailed /\ pc = "done" =>
    /\ result.error = "All APIs failed"
    /\ MediaCalls = {}
    /\ msg.text.tpl = "Download Failed"
    /\ msg.text.err \notin ExceptionTexts

\* C3 amended: when all providers failed, get_tiktok_content returns the
\* failure ('All APIs failed'); the handler sends no media, and its one call
\* after the status message is an edit to the 'Download Failed' text, which
\* carries that fixed error and no exception text.  If the gateway accepts
\* the edit the handler ends there with that text showing; if it rejects it,
\* the only further call is the edit to the 'Unexpected Error' text, which
\* carries the text of the gateway's exception.
C3_FailureReported ==
  AllProvidersFailed =>
    /\ result.type = "failure" /\ result.error = "All APIs failed"
    /\ MediaCalls = {}
    /\ pc \in {"dispatch", "except", "done"}
    /\ (pc = "dispatch" <=> Len(calls) = 1)
    /\ (pc # "dispatch" =>
          /\ calls[2].op = "edit_text"
          /\ calls[2].text.tpl = "Download Failed"
          /\ calls[2].text.err = "All APIs failed"
          /\ calls[2].text.err \notin ExceptionTexts
          /\ (calls[2].ok =>
                /\ pc = "done" /\ Len(calls) = 2 /\ ~escaped
                /\ msg.text = calls[2].text)
          /\ (~calls[2].ok =>
                /\ Len(calls) = IF pc = "except" THEN 2 ELSE 3
                /\ (pc = "done" =>
                      /\ calls[3].op = "edit_text"
                      /\ calls[3].text.tpl = "Unexpected Error"
                      /\ calls[3].text.err \in ExceptionTexts
                      /\ msg.text = IF calls[3].ok THEN calls[3].text
                                    ELSE calls[1].text)))

\* C3 witness: all three providers failed and the status message shows the
\* 'Download Failed' text
C3_Witness ==
  /\ pc = "done" /\ AllProvidersFailed
  /\ msg.text.tpl = "Download Failed" /\ msg.text.err = "All APIs failed"

\* the calls that put something before the user: a reply, an edit of the
\* status message, an album, a photo or a video that the gateway accepted
VisibleCalls == { k \in 1..Len(calls) : calls[k].ok /\ calls[k].op # "delete" }

\* C4 as claimed: the handling of a message ends only after at least one
\* message for the request has been put before the user, and no error
\* escapes the handler.
C4_AsClaimed ==
  pc = "done" => VisibleCalls # {} /\ ~escaped

\* the single-photo sends, in the order they were made
PhotoCalls == SelectSeq(calls, LAMBDA c : c.op = "reply_photo")
AlbumCalls == SelectSeq(calls, LAMBDA c : c.op = "reply_media_group")
Accepted(cs) == Len(SelectSeq(cs, LAMBDA c : c.ok))

\* the gateway rejected the album
AlbumRejected == \E k \in 1..Len(calls) :
  calls[k].op = "reply_media_group" /\ ~calls[k].ok

\* "(j/total)"
Numbering(j, total) == <<"(">> \o Itoa(j) \o <<"/">> \o Itoa(total) \o <<")">>

\* the j-th single-photo send is of the j-th image and numbered (j/total)
PhotoInOrder(j, total) ==
  /\ PhotoCalls[j].media[1].media.kind = "str"
  /\ CleanUrl(PhotoCalls[j].media[1].media.str) = CleanUrl(images[j].str)
  /\ Contains(PhotoCalls[j].media[1].caption.text, Numbering(j, total))

\* C5 as claimed: once the gateway has rejected the album, the handler ends
\* having attempted exactly min(n, 5) single-photo sends, of the first images
\* in order, the j-th one numbered (j/min(n, 5)), and having sent the album
\* only once.
C5_AsClaimed ==
  pc = "done" /\ AlbumRejected =>
    LET total == IF Len(images) < 5 THEN Len(images) ELSE 5
    IN /\ Len(AlbumCalls) = 1
       /\ Len(PhotoCalls) = total
       /\ \A j \in 1..Len(PhotoCalls) : PhotoInOrder(j, total)

\* C6 as claimed: every image URL handed to the gateway, as an album item or
\* as a single photo, has no query string left: it is the URL of the image
\* up to its first '?'.
C6_AsClaimed ==
  \A k \in 1..Len(calls) :
    calls[k].op \in {"reply_media_group", "reply_photo"} =>
      \A j \in 1..Len(calls[k].media) :
        calls[k].media[j].media.kind = "str" =>
          ~Contains(calls[k].media[j].media.str, <<"?">>)

\* the fallback loop has been entered: the 'Sending images individually'
\* edit went through
FallbackEdit == { k \in 1..Len(calls) :
  calls[k].op = "edit_text" /\ calls[k].text.tpl = "Sending images individually" }
FallbackRan == \E k \in FallbackEdit : calls[k].ok

\* the number of images the fallback attempts
FallbackTotal == IF Len(images) < 5 THEN Len(images) ELSE 5

\* text t reports the outcome of the single-photo sends made so far
ReportsOutcome(t) ==
  /\ (t.tpl = "Could not send any images" <=> Accepted(PhotoCalls) = 0)
  /\ (Accepted(PhotoCalls) > 0 =>
        t.tpl = "Sent images" /\ t.n = Accepted(PhotoCalls))

\* C7 as claimed: when the fallback has run, every one of the min(n, 5)
\* photos was attempted, and the status message ends as 'Could not send any
\* images' if and only if every attempt was rejected, and otherwise reports
\* the number of accepted sends.
C7_AsClaimed ==
  pc = "done" /\ FallbackRan =>
    /\ Len(PhotoCalls) = FallbackTotal
    /\ ReportsOutcome(msg.text)

\* C7 amended: when the fallback loop runs, a rejected photo does not stop
\* the attempts for the remaining photos, and the closing edit the handler
\* then issues is 'Could not send any images' if and only if every attempted
\* single-photo send was rejected, and otherwise reports the number of
\* accepted sends.  That text is the final status text if the gateway accepts
\* the closing edit; if it rejects it, the handler's only further call is the
\* edit to the 'Unexpected Error' text.
C7_FallbackReport ==
  FallbackRan =>
    LET first == CHOOSE k \in FallbackEdit : calls[k].ok
        closing == first + FallbackTotal + 1
    IN /\ pc \in {"photos", "except", "done"}
       /\ \A k \in (first + 1)..Min(Len(calls), closing - 1) :
            calls[k].op = "reply_photo"
       /\ (pc = "photos" =>
             /\ Len(PhotoCalls) = i /\ i <= FallbackTotal
             /\ sent_count = Accepted(PhotoCalls)
             /\ Len(calls) = first + i)
       /\ (pc # "photos" =>
             /\ Len(PhotoCalls) = FallbackTotal
             /\ calls[closing].op = "edit_text"
             /\ ReportsOutcome(calls[closing].text)
             /\ (calls[closing].ok =>
                   /\ pc = "done" /\ Len(calls) = closing
                   /\ msg.text = calls[closing].text)
             /\ (~calls[closing].ok =>
                   /\ Len(calls) = IF pc = "except" THEN closing ELSE closing + 1
                   /\ (pc = "done" =>
                         /\ calls[closing + 1].op = "edit_text"
                         /\ calls[closing + 1].text.tpl = "Unexpected Error")))

\* C7 witness: the fallback ended with some photos rejected, some accepted,
\* and the status message reporting the number accepted
C7_Witness ==
  /\ pc = "done" /\ FallbackRan
  /\ Accepted(PhotoCalls) > 1 /\ Accepted(PhotoCalls) < Len(PhotoCalls)
  /\ msg.text.tpl = "Sent images" /\ msg.text.n = Accepted(PhotoCalls)

\* the text holds one of the two markers
HasMarker ==
  \/ Contains(text, <<"t","i","k","t","o","k",".","c","o","m">>)
  \/ Contains(text, <<"d","o","u","y","i","n",".","c","o","m">>)

\* C8 as claimed: for a text without a marker the handler makes exactly one
\* call, the reply 'Please send a valid TikTok URL', and contacts no provider;
\* for a text with a marker the chain is run.
C8_AsClaimed ==
  pc = "done" =>
    IF HasMarker
    THEN contacted # <<>>
    ELSE /\ Len(calls) = 1
         /\ calls[1].op = "reply_text"
         /\ calls[1].text.tpl = "Please send a valid TikTok URL"
         /\ contacted = <<>>

\* C9: an album handed to the gateway holds the first 10 images of the
\* resolved slideshow, in their order (each with its query string removed),
\* and all of them when there are 10 or fewer.
C9_AlbumCapped ==
  \A k \in 1..Len(calls) :
    calls[k].op = "reply_media_group" =>
      LET orig == result.images.list
          items == calls[k].media
      IN /\ Len(items) = IF Len(orig) > 10 THEN 10 ELSE Len(orig)
         /\ Len(items) >= 1
         /\ \A j \in 1..Len(items) :
              /\ orig[j].kind = "str"
              /\ items[j].media = StrV(CleanUrl(orig[j].str))

\* C9 witness: a slideshow of more than 10 images went out as an album of 10
C9_Witness ==
  \E k \in 1..Len(calls) :
    /\ calls[k].op = "reply_media_group"
    /\ Len(result.images.list) > 10
    /\ Len(calls[k].media) = 10

\* payload d of provider name has its image list and a video field populated
BothPopulated(name, d) ==
  /\ d.isDict
  /\ name = "TikTok Download API" \/ d.dataKind = "dict"
  /\ d.images.kind \in {"str", "list"} /\ Truthy(d.images)
  /\ Truthy(d.hd) \/ Truthy(d.play)

\* C10 as claimed: a payload that a normalizer accepts and that has both its
\* image list and a video field populated gives the slideshow variant.
C10_AsClaimed ==
  pc = "parse" /\ Decoded /\ BothPopulated(LastContacted, resp.data)
  /\ IsResult(ParseFunc(LastContacted, resp.data))
    => ParseFunc(LastContacted, resp.data).type = "slideshow"

\* payload d of provider name has an expected field of the wrong shape: a
\* "data" that is no object, an "author" that is no object, or an image
\* field that is neither a string nor a list
Malformed(name, d) ==
  /\ d.isDict
  /\ \/ name # "TikTok Download API"
        /\ d.dataKind \in {"null", "falsyother", "nondict"}
     \/ name = "TikWM Slideshow" /\ d.dataKind = "dict"
        /\ d.author.kind \in {"null", "nondict"}
     \/ (name = "TikTok Download API" \/ d.dataKind = "dict")
        /\ d.images.kind = "other"

\* C11 as claimed: a normalizer never raises, and it returns None for every
\* payload with a malformed expected field.
C11_AsClaimed ==
  pc = "parse" /\ Decoded =>
    /\ ParseFunc(LastContacted, resp.data) # Raised
    /\ (Malformed(LastContacted, resp.data) =>
          ParseFunc(LastContacted, resp.data) = NoneResult)

\* v is a URL: a string that is not empty
IsUrl(v) == v.kind = "str" /\ Len(v.str) > 0

\* C12 as claimed: a successful result of the chain is a slideshow whose
\* images are a non-empty list of URLs, or a video whose video_url is a URL.
C12_AsClaimed ==
  pc = "dispatch" /\ result.success =>
    \/ /\ result.type = "slideshow"
       /\ result.images.kind = "list"
       /\ Len(result.images.list) > 0
       /\ \A k \in 1..Len(result.images.list) : IsUrl(result.images.list[k])
    \/ /\ result.type = "video"
       /\ IsUrl(result.video_url)

\* the image field a normalizer reads in payload d: for TikWM and TikMate
\* it lies inside "data"
ImageField(name, d) ==
  IF d.isDict /\ (name = "TikTok Download API" \/ d.dataKind = "dict")
  THEN d.images ELSE Absent

\* C13: for every payload whose image field is a bare string, the image list
\* of the slideshow the normalizer returns has exactly one element, and that
\* element is the string.
C13_BareString ==
  pc = "parse" /\ Decoded /\ ImageField(LastContacted, resp.data).kind = "str" =>
    LET r == ParseFunc(LastContacted, resp.data)
    IN IsResult(r) /\ r.type = "slideshow" =>
         /\ r.images.kind = "list"
         /\ Len(r.images.list) = 1
         /\ r.images.list[1] = ImageField(LastContacted, resp.data)

\* a slideshow resolved from the bare string "u0?s", which no image list of
\* the payloads holds, has reached the handler
C13_Witness ==
  /\ pc = "dispatch"
  /\ result.success
  /\ result.type = "slideshow"
  /\ result.images = ListV(<<StrV(<<"u", "0", "?", "s">>)>>)

\* s begins with p
StartsWith(s, p) == Len(s) >= Len(p) /\ SubSeq(s, 1, Len(p)) = p

\* the title as the claim wants it shown: its first 100 characters when it
\* has 100 or more, itself otherwise
ShownTitle ==
  IF Len(result.title.str) >= 100 THEN SubSeq(result.title.str, 1, 100)
  ELSE result.title.str

\* C14: the caption of the first album item, of the first single photo and
\* of the video carries the title cut to exactly its first 100 characters
\* when it has 100 or more, and the whole title when it is shorter.
C14_TitleTruncated ==
  \A k \in MediaCalls :
    LET c == calls[k].media[1].caption
    IN /\ calls[k].op = "reply_media_group" =>
            c.has /\ StartsWith(c.text, Frame \o <<" ">> \o ShownTitle \o <<"\n">>)
       /\ calls[k].op = "reply_photo" /\ calls[k] = PhotoCalls[1] =>
            c.has /\ StartsWith(c.text, Frame \o <<" ">> \o ShownTitle
                                         \o <<" ", "(", "1", "/">>)
       /\ calls[k].op = "reply_video" =>
            c.has /\ StartsWith(c.text, Clapper \o <<" ">> \o ShownTitle \o <<"\n">>)

\* an album has been sent for a title of more than 100 characters
C14_Witness ==
  /\ Len(AlbumCalls) = 1
  /\ result.title.kind = "str"
  /\ Len(result.title.str) > 100

\* the title key was missing or null in the payload that a result came from
TitleAbsent(d) == d.title.kind \in {"absent", "null"}

\* the default title of a result of this type
DefaultTitle(type) ==
  IF type = "slideshow" THEN StrV(<<"T","i","k","T","o","k"," ","S","l","i","d","e","s","h","o","w">>)
  ELSE StrV(<<"T","i","k","T","o","k"," ","V","i","d","e","o">>)

\* C15 as claimed: a payload that is valid but for a missing or null title
\* resolves to content with the default title of its type, and the handler
\* never fails with a TypeError on the title of a resolved result.
C15_AsClaimed ==
  /\ pc = "parse" /\ Decoded /\ TitleAbsent(resp.data)
     /\ IsResult(ParseFunc(LastContacted, resp.data)) =>
       LET r == ParseFunc(LastContacted, resp.data)
       IN r.title = DefaultTitle(r.type)
  /\ pc = "except" /\ exc = TypeError => result.title.kind = "str"

\* the caption of the first item of album call c names the title, the author
\* when the result has one, and the number of items; no other item has a
\* caption
CaptionedOnce(c) ==
  LET n == Len(c.media)
      first == c.media[1].caption
  IN /\ first.has
     /\ Contains(first.text, title)
     /\ (Truthy(result.author) => Contains(first.text, result.author.str))
     /\ Contains(first.text, Itoa(n) \o <<" ", "p", "h", "o", "t", "o", "s">>)
     /\ \A j \in 2..n : ~c.media[j].caption.has

\* C16 as claimed: for every slideshow exactly one album send is attempted,
\* and in that album only the first item has a caption, which names the
\* title, the author when present, and the number of items.
C16_AsClaimed ==
  /\ Len(AlbumCalls) <= 1
  /\ pc = "done" /\ result.success /\ result.type = "slideshow" =>
       Len(AlbumCalls) = 1
  /\ \A k \in 1..Len(AlbumCalls) : CaptionedOnce(AlbumCalls[k])

\* C18 as claimed: a single photo is sent only if the gateway rejected the
\* album send itself, and no request delivers an album and single photos.
C18_AsClaimed ==
  /\ Len(PhotoCalls) > 0 => AlbumRejected
  /\ ~(Accepted(AlbumCalls) > 0 /\ Accepted(PhotoCalls) > 0)

\* the gateway rejected the video
VideoRejected == \E k \in 1..Len(calls) :
  calls[k].op = "reply_video" /\ ~calls[k].ok

\* C19 as claimed: the handler edits the status message to the text with
\* the direct link, "Could not send via Telegram", only if the gateway
\* rejected the video send itself.
C19_AsClaimed ==
  \A k \in 1..Len(calls) :
    calls[k].op = "edit_text" /\ calls[k].text.tpl = "Could not send via Telegram"
      => VideoRejected

====
